---------------------------- MODULE Spec2Model ----------------------------
(***************************************************************************)
(* Student Command Center (src/app.py): the Streamlit script as a state    *)
(* machine.  One step of the application is one run of the whole script,   *)
(* top to bottom, triggered by one user interaction (a button press, a     *)
(* checkbox click, or any other widget change).  st.session_state is the   *)
(* only state that survives from one run to the next.                      *)
(*                                                                         *)
(* A Python str is a sequence of characters.  A character is a one-letter  *)
(* string; the non-ASCII characters of the source are written by name      *)
(* ("BULLET" is U+2022, "MIDDOT" U+00B7, "ARROW" U+2192, "TRIANGLE"        *)
(* U+25B6, "RAQUO" U+00BB, "EMDASH" U+2014).                               *)
(***************************************************************************)
EXTENDS Integers, Sequences, FiniteSets, TLC

VARIABLES
    \* ---- the application (Spec) ----
    client,         \* "None" or "Groq": the module-level client of lines 31-35
    todos,          \* st.session_state.todos
    finance,        \* st.session_state.finance
    cleaned_notes,  \* st.session_state.cleaned_notes
    checked,        \* widget store: the checkbox widgets whose value is True
    rendered,       \* the todo labels the last run drew checkboxes for
    reached,        \* where the last run of the script stopped
    pressed,        \* the interaction that triggered the last run
    text_in,        \* the text input the pressed button's handler read
    clicked,        \* the checkbox position the user ticked in the last run, or 0
    requests,       \* the completion requests the last run sent: their call sites
    ai,             \* what ai_call did in the last run
    df,             \* the expense table the last run offered for download
    expense_log,    \* the widget values at each Add Expense press, in order
    \* ---- clean_step alone (SpecClean) ----
    line, once, twice, cstage,
    \* ---- extract_text_from_pdf alone (SpecPdf) ----
    doc, extracted, pstage

appvars   == <<client, todos, finance, cleaned_notes, checked, rendered, reached,
               pressed, text_in, clicked, requests, ai, df, expense_log>>
cleanvars == <<line, once, twice, cstage>>
pdfvars   == <<doc, extracted, pstage>>
vars      == <<appvars, cleanvars, pdfvars>>

---------------------------------------------------------------------------
\* Bounds of the model.
MaxLen      == 5    \* longest input line given to clean_step
MaxPages    == 3    \* most pages of a document given to extract_text_from_pdf
MaxTodos    == 2    \* most todo items in the list
MaxExpenses == 2    \* most Add Expense presses

---------------------------------------------------------------------------
\* Character classes of Python's re and str.strip, and of the source's regexes.
NL          == "\n"
Whitespace  == {" ", "\t", NL}
Digits      == {"0", "1", "2", "3", "4", "5", "6", "7", "8", "9"}
BulletChars == {"*", "-", "BULLET", "MIDDOT", "ARROW", "TRIANGLE", "RAQUO"}
\* The characters above that have no Latin-1 encoding.
NonLatin1   == {"BULLET", "ARROW", "TRIANGLE", "EMDASH"}

Drop(s, n) == SubSeq(s, n + 1, Len(s))

\* A greedy X* at position i: how many characters of s from i on lie in S.
RECURSIVE SpanLen(_, _, _)
SpanLen(s, i, S) ==
    IF i <= Len(s) /\ s[i] \in S THEN 1 + SpanLen(s, i + 1, S) ELSE 0

lstrip(s) == Drop(s, SpanLen(s, 1, Whitespace))

RECURSIVE rstrip(_)
rstrip(s) ==
    IF s # <<>> /\ s[Len(s)] \in Whitespace
    THEN rstrip(SubSeq(s, 1, Len(s) - 1))
    ELSE s

\* str.strip()
strip(s) == rstrip(lstrip(s))

---------------------------------------------------------------------------
\* clean_step, lines 64-71.

\* A bug: the character class without its "+", one symbol only.
sub_bullets_single(s) ==
    IF s # <<>> /\ s[1] \in BulletChars
    THEN Drop(s, 1 + SpanLen(s, 2, Whitespace))
    ELSE s

\* re.sub(r"^[\*\-\•\·\→\▶\»]+\s*", "", step)
sub_bullets(s) ==
    LET b == SpanLen(s, 1, BulletChars)
    IN  IF b = 0 THEN s ELSE Drop(s, b + SpanLen(s, b + 1, Whitespace))

\* A bug: the dot made optional, r"^\d+\.?\s*".
sub_numbering_optional_dot(s) ==
    LET d   == SpanLen(s, 1, Digits)
        dot == IF d + 1 <= Len(s) /\ s[d + 1] = "." THEN 1 ELSE 0
    IN  IF d = 0 THEN s ELSE Drop(s, d + dot + SpanLen(s, d + dot + 1, Whitespace))

\* re.sub(r"^\d+\.\s*", "", step)
sub_numbering(s) ==
    LET d == SpanLen(s, 1, Digits)
    IN  IF d > 0 /\ d + 1 <= Len(s) /\ s[d + 1] = "."
        THEN Drop(s, d + 1 + SpanLen(s, d + 2, Whitespace))
        ELSE s

\* re.sub(r"^\(\d+\)\s*", "", step)
sub_paren_numbering(s) ==
    LET d == SpanLen(s, 2, Digits)
    IN  IF s # <<>> /\ s[1] = "(" /\ d > 0 /\ d + 2 <= Len(s) /\ s[d + 2] = ")"
        THEN Drop(s, d + 2 + SpanLen(s, d + 3, Whitespace))
        ELSE s

\* A bug: the "(1)" substitution left out.
clean_step_without_paren(step) == strip(sub_numbering(sub_bullets(step)))

clean_step(step) == strip(sub_paren_numbering(sub_numbering(sub_bullets(step))))

---------------------------------------------------------------------------
\* extract_text_from_pdf, lines 89-103.
\* A document is [readable, pages]: PyPDF2.PdfReader raises on an unreadable
\* one.  A page is what page.extract_text() does: it raises, returns None, or
\* returns a str (possibly empty, as for an image-only page).

\* A bug: the "if p:" test left out.
pages_loop_without_test(pages, text) ==
    LET RECURSIVE loop(_, _)
        loop(ps, t) ==
            IF ps = <<>> THEN t
            ELSE LET page == Head(ps)
                 IN  loop(Tail(ps),
                          IF page.kind = "raises" THEN t
                          ELSE t \o page.text \o <<NL>>)
    IN  loop(pages, text)

\* for page in reader.pages: ... (lines 93-100)
pages_loop(pages, text) ==
    LET RECURSIVE loop(_, _)
        loop(ps, t) ==
            IF ps = <<>> THEN t
            ELSE LET page == Head(ps)
                 IN  loop(Tail(ps),
                          IF page.kind = "raises" THEN t      \* except Exception: pass
                          ELSE IF page.kind = "str" /\ page.text # <<>>   \* if p:
                               THEN t \o page.text \o <<NL>>
                               ELSE t)
    IN  loop(pages, text)

extract_text_from_pdf(uploaded_file) ==
    IF ~uploaded_file.readable
    THEN [raised |-> FALSE, text |-> <<>>]                   \* outer except: pass
    ELSE [raised |-> FALSE, text |-> pages_loop(uploaded_file.pages, <<>>)]

---------------------------------------------------------------------------
\* The completion client, lines 31-59.

\* The text of line 46; a run of plain ASCII letters is kept as one element.
Placeholder ==
    <<"AI unavailable ", "EMDASH",
      " add your GROQ_API_KEY in .streamlit/secrets.toml to enable AI features.">>

\* What client.chat.completions.create can do: raise (a transport or API error),
\* return a response whose choices[0].message.content is a str, or return a
\* malformed one (no choices, or content None: line 53 raises on either).
Completions == {<<" ", "x", NL>>, <<"BULLET", " ", "x">>}
Responses ==
    {[kind |-> k, content |-> <<>>] : k \in {"raises", "malformed"}}
        \cup {[kind |-> "str", content |-> c] : c \in Completions}

\* str(response), line 59
str_response(response) == <<"ChatCompletion(", response.kind, ")">>

\* A bug: the "client is None" test left out; client.chat then raises AttributeError.
ai_call_without_guard(prompt, response) ==
    IF client = "None" THEN [raised |-> TRUE, value |-> <<>>, sent |-> <<>>]
    ELSE IF response.kind = "raises"
    THEN [raised |-> TRUE, value |-> <<>>, sent |-> <<prompt>>]
    ELSE IF response.kind = "str"
    THEN [raised |-> FALSE, value |-> strip(response.content), sent |-> <<prompt>>]
    ELSE [raised |-> FALSE, value |-> str_response(response), sent |-> <<prompt>>]

\* A bug: the fallback of lines 56-57 asking the service a second time.
ai_call_with_retry(prompt, response) ==
    IF client = "None" THEN [raised |-> FALSE, value |-> Placeholder, sent |-> <<>>]
    ELSE IF response.kind = "raises"
    THEN [raised |-> TRUE, value |-> <<>>, sent |-> <<prompt>>]
    ELSE IF response.kind = "str"
    THEN [raised |-> FALSE, value |-> strip(response.content), sent |-> <<prompt>>]
    ELSE [raised |-> FALSE, value |-> str_response(response),
          sent |-> <<prompt, prompt>>]

\* ai_call(prompt), given what the service does with its one request.
\* sent: the requests made; raised: an exception leaves ai_call.
ai_call(prompt, response) ==
    IF client = "None"                                             \* line 45
    THEN [raised |-> FALSE, value |-> Placeholder, sent |-> <<>>]
    ELSE IF response.kind = "raises"            \* lines 47-50, outside any try
    THEN [raised |-> TRUE, value |-> <<>>, sent |-> <<prompt>>]
    ELSE IF response.kind = "str"                                  \* line 53
    THEN [raised |-> FALSE, value |-> strip(response.content), sent |-> <<prompt>>]
    ELSE \* line 53 raises, line 57 raises again, line 59
         [raised |-> FALSE, value |-> str_response(response), sent |-> <<prompt>>]

\* What the last run's ai_call did, when the run made no call.
NotCalled == [called |-> FALSE, raised |-> FALSE, value |-> <<>>]

---------------------------------------------------------------------------
\* generate_pdf, lines 76-84: the core font of line 80 and the encode of line 84
\* take Latin-1 text only; any other character raises (UnicodeEncodeError).
generate_pdf(text) ==
    [raised |-> \E i \in 1..Len(text) : text[i] \in NonLatin1]

---------------------------------------------------------------------------
\* The todo list, lines 166-183.

\* list.remove(r): the first occurrence of r goes
list_remove(ts, r) ==
    LET k == CHOOSE i \in 1..Len(ts) :
                 ts[i] = r /\ \A j \in 1..(i - 1) : ts[j] # r
    IN  SubSeq(ts, 1, k - 1) \o SubSeq(ts, k + 1, Len(ts))

\* The key and label of the checkbox of line 176 are its identity in the
\* widget store.
checkbox_id(i, t) == <<i, t>>

\* lines 174-177: the labels of the ticked checkboxes, in list order
RECURSIVE to_remove(_, _, _)
to_remove(ts, i, chk) ==
    IF i > Len(ts) THEN <<>>
    ELSE (IF checkbox_id(i, ts[i]) \in chk THEN <<ts[i]>> ELSE <<>>)
             \o to_remove(ts, i + 1, chk)

\* lines 179-182
RECURSIVE remove_completed(_, _)
remove_completed(ts, rs) ==
    IF rs = <<>> THEN ts
    ELSE remove_completed(
             IF \E i \in 1..Len(ts) : ts[i] = Head(rs)           \* if r in todos
             THEN list_remove(ts, Head(rs))
             ELSE ts,
             Tail(rs))

---------------------------------------------------------------------------
\* The expense table, lines 273-294.
DigitChar(n) == <<"0", "1", "2", "3", "4", "5", "6", "7", "8", "9">>[n + 1]
Pad2(n) == <<DigitChar(n \div 10), DigitChar(n % 10)>>
Pad4(n) == Pad2(n \div 100) \o Pad2(n % 100)

\* str(date_input): ISO format
date_str(d) == Pad4(d.year) \o <<"-">> \o Pad2(d.month) \o <<"-">> \o Pad2(d.day)

\* An amount is a number of tenths (25 is 2.5); number_input already gives a
\* float no less than min_value=0.0, which float() returns as it is.
float_of(amt) == amt

\* the record of lines 274-279
expense_record(e) ==
    [date        |-> date_str(e.date_input),
     description |-> e.desc_input,
     amount      |-> float_of(e.amt_input),
     category    |-> e.category_input]

\* A bug: the list assigned instead of appended to.
add_expense_overwriting(fin, e) == <<expense_record(e)>>

\* st.session_state.finance.append({...}), line 274
add_expense(fin, e) == Append(fin, expense_record(e))

\* pd.DataFrame(st.session_state.finance): one row per record, in list order
DataFrame(records) ==
    [columns |-> <<"date", "description", "amount", "category">>,
     rows    |-> [i \in 1..Len(records) |->
                     <<records[i].date, records[i].description,
                       records[i].amount, records[i].category>>]]

NoTable == [columns |-> <<>>, rows |-> <<>>]

\* df.to_string(index=False): one line per row
RECURSIVE to_string(_)
to_string(rows) ==
    IF rows = <<>> THEN <<>>
    ELSE LET r == Head(rows)
         IN  r[1] \o <<" ">> \o r[2] \o <<" ">>
                 \o <<DigitChar(r[3] \div 10), ".", DigitChar(r[3] % 10)>>
                 \o <<" ", r[4], NL>> \o to_string(Tail(rows))

---------------------------------------------------------------------------
\* The values the user can give the widgets.
MainTasks     == {<<>>, <<" ">>, <<"t">>}
TaskInputs    == {<<>>, <<" ">>, <<" ", "a">>}
NoUpload      == [present |-> FALSE, readable |-> FALSE, pages |-> <<>>]
Unreadable    == [present |-> TRUE, readable |-> FALSE, pages |-> <<>>]
Readable ==
    [present |-> TRUE, readable |-> TRUE,
     pages |-> <<[kind |-> "raises", text |-> <<>>],
                 [kind |-> "str", text |-> <<"n">>]>>]
\* the file uploader and the text area of lines 224-225 together
NoteInputs ==
    {[uploaded_pdf |-> NoUpload,   pasted |-> <<>>],
     [uploaded_pdf |-> NoUpload,   pasted |-> <<" ">>],
     [uploaded_pdf |-> NoUpload,   pasted |-> <<"n">>],
     [uploaded_pdf |-> Unreadable, pasted |-> <<"n">>],
     [uploaded_pdf |-> Readable,   pasted |-> <<>>]}
\* the selectbox and the text input of lines 204-206 together
IdeaInputs ==
    {[category |-> "Project Ideas", custom_prompt |-> <<" ">>],
     [category |-> "Study Ideas",   custom_prompt |-> <<"p">>]}
ExpenseInputs ==
    {[date_input |-> [year |-> 2024, month |-> 1, day |-> 1],
      desc_input |-> <<"B", "u", "s">>, amt_input |-> 25,
      category_input |-> "Travel"],
     [date_input |-> [year |-> 2024, month |-> 12, day |-> 31],
      desc_input |-> <<>>, amt_input |-> 0,
      category_input |-> "Food"]}

\* What the service may do in a run: any of Responses when the run asks it,
\* and nothing to choose when it does not.
ResponsesIf(asked) ==
    IF asked THEN Responses ELSE {[kind |-> "raises", content |-> <<>>]}

\* The widget values of a run in which the user changed nothing.
Idle ==
    [button        |-> "none",
     main_task     |-> <<>>,
     new_task      |-> <<>>,
     category      |-> "Study Ideas",
     custom_prompt |-> <<>>,
     uploaded_pdf  |-> NoUpload,
     pasted        |-> <<>>,
     expense       |-> CHOOSE e \in ExpenseInputs : e.desc_input = <<>>,
     response      |-> [kind |-> "raises", content |-> <<>>]]

---------------------------------------------------------------------------
\* One run of the script, lines 108-299, tab by tab.  A run carries
\*   stop     where an exception ended it ("" while it is still running),
\*   todos, cleaned_notes, finance   the session state as written so far,
\*   rendered the labels it drew checkboxes for,
\*   df       the table it offered,
\*   ai, sent what its ai_call did and the requests that made,
\*   text_in  the text input its button handler read.
\* An exception that leaves ai_call or generate_pdf ends the run where it is
\* raised; session state keeps what the run had written by then.
run_start ==
    [stop |-> "", todos |-> todos, cleaned_notes |-> cleaned_notes,
     finance |-> finance, rendered |-> <<>>, df |-> NoTable,
     ai |-> NotCalled, sent |-> <<>>, text_in |-> <<>>]

\* a call of ai_call from the tab named stage
call_ai(run, stage, prompt, response) ==
    LET r == ai_call(prompt, response)
    IN  [run EXCEPT !.ai   = [called |-> TRUE, raised |-> r.raised, value |-> r.value],
                    !.sent = r.sent,
                    !.stop = IF r.raised THEN stage ELSE ""]

\* lines 131-153
tab_task_splitter(inp, run) ==
    IF inp.button # "Generate Steps" THEN run
    ELSE IF strip(inp.main_task) = <<>>
    THEN [run EXCEPT !.text_in = inp.main_task]
    ELSE call_ai([run EXCEPT !.text_in = inp.main_task], "tab1",
                 [template |-> "steps", arg |-> inp.main_task], inp.response)

\* lines 158-193
tab_todo_list(inp, chk, run) ==
    IF run.stop # "" THEN run
    ELSE LET todos1 == IF inp.button = "Add Task" /\ strip(inp.new_task) # <<>>
                       THEN Append(run.todos, strip(inp.new_task))
                       ELSE run.todos
         IN  [run EXCEPT !.todos    = remove_completed(todos1, to_remove(todos1, 1, chk)),
                         !.rendered = todos1,
                         !.text_in  = IF inp.button = "Add Task"
                                      THEN inp.new_task ELSE @]

\* lines 198-215
tab_idea_generator(inp, run) ==
    IF run.stop # "" \/ inp.button # "Generate Ideas" THEN run
    ELSE call_ai(run, "tab3",
                 [template |-> "ideas",
                  arg |-> IF strip(inp.custom_prompt) # <<>>
                          THEN inp.custom_prompt
                          ELSE <<inp.category>>],
                 inp.response)

\* lines 227-236
source_text(inp) ==
    IF inp.uploaded_pdf.present
    THEN extract_text_from_pdf(inp.uploaded_pdf).text
    ELSE IF strip(inp.pasted) # <<>> THEN inp.pasted ELSE <<>>

\* lines 238-245
clean_notes_handler(inp, run) ==
    IF run.stop # "" \/ inp.button # "Clean Notes" THEN run
    ELSE LET src == source_text(inp)
         IN  IF strip(src) = <<>>
             THEN [run EXCEPT !.text_in = src]
             ELSE LET called == call_ai([run EXCEPT !.text_in = src], "tab4",
                                        [template |-> "notes", arg |-> src],
                                        inp.response)
                  IN  IF called.stop # "" THEN called
                      ELSE [called EXCEPT !.cleaned_notes = called.ai.value]

\* lines 247-254
tab_notes_cleaner(inp, run) ==
    LET cleaned == clean_notes_handler(inp, run)
    IN  IF cleaned.stop = "" /\ cleaned.cleaned_notes # <<>>
           /\ generate_pdf(cleaned.cleaned_notes).raised
        THEN [cleaned EXCEPT !.stop = "pdf"]
        ELSE cleaned

\* lines 259-299
tab_finance_manager(inp, run) ==
    IF run.stop # "" THEN run
    ELSE LET added == IF inp.button = "Add Expense"
                      THEN [run EXCEPT !.finance = add_expense(@, inp.expense),
                                       !.text_in = inp.expense.desc_input]
                      ELSE run
         IN  IF added.finance = <<>> THEN added
             ELSE LET shown == [added EXCEPT !.df = DataFrame(added.finance)]
                  IN  IF inp.button # "Get Financial Advice" THEN shown
                      ELSE call_ai(shown, "tab5",
                                   [template |-> "advice",
                                    arg |-> to_string(shown.df.rows)],
                                   inp.response)

\* The script run with widget values inp and checkbox values chk; clk is the
\* checkbox position the user ticked, or 0.
RunScript(inp, chk, clk) ==
    \E r1 \in {tab_task_splitter(inp, run_start)} :
    \E r2 \in {tab_todo_list(inp, chk, r1)} :
    \E r3 \in {tab_idea_generator(inp, r2)} :
    \E r4 \in {tab_notes_cleaner(inp, r3)} :
    \E run \in {tab_finance_manager(inp, r4)} :
        /\ todos' = run.todos
        /\ cleaned_notes' = run.cleaned_notes
        /\ finance' = run.finance
        /\ rendered' = run.rendered
        \* a run that ends normally drops the values of the widgets it did not draw
        /\ checked' = IF run.stop # "" THEN chk
                      ELSE {w \in chk : /\ w[1] \in 1..Len(run.rendered)
                                        /\ w = checkbox_id(w[1], run.rendered[w[1]])}
        /\ df' = run.df
        /\ reached' = IF run.stop = "" THEN "end" ELSE run.stop
        /\ pressed' = inp.button
        /\ text_in' = run.text_in
        /\ clicked' = clk
        /\ requests' = [i \in 1..Len(run.sent) |-> run.sent[i].template]
        /\ ai' = run.ai
        /\ expense_log' = IF inp.button = "Add Expense"
                          THEN Append(expense_log, inp.expense)
                          ELSE expense_log
        /\ UNCHANGED client

---------------------------------------------------------------------------
\* SpecClean: clean_step applied once and twice to every line up to MaxLen
\* characters over an alphabet holding each kind of character the three
\* regexes tell apart.
LineChars == {"*", "MIDDOT", "1", ".", "(", ")", " ", "x"}
Lines     == UNION {[1..n -> LineChars] : n \in 0..MaxLen}

InitClean ==
    /\ line \in Lines
    /\ once = <<>>
    /\ twice = <<>>
    /\ cstage = "input"

ParkClean ==
    /\ line = <<>>
    /\ once = <<>>
    /\ twice = <<>>
    /\ cstage = "off"

\* cs = clean_step(s), as the Generate Steps handler calls it (line 143)
CleanOnce ==
    /\ cstage = "input"
    /\ once' = clean_step(line)
    /\ cstage' = "once"
    /\ UNCHANGED <<line, twice>>

\* clean_step applied to its own output
CleanTwice ==
    /\ cstage = "once"
    /\ twice' = clean_step(once)
    /\ cstage' = "twice"
    /\ UNCHANGED <<line, once>>

---------------------------------------------------------------------------
\* SpecPdf: extract_text_from_pdf applied to every document of up to MaxPages
\* pages.
PageTexts == {<<>>, <<"a">>, <<"b">>}
Pages ==
    {[kind |-> "raises", text |-> <<>>], [kind |-> "None", text |-> <<>>]}
        \cup {[kind |-> "str", text |-> t] : t \in PageTexts}
Documents ==
    {[readable |-> r, pages |-> ps] :
        r \in BOOLEAN, ps \in UNION {[1..n -> Pages] : n \in 0..MaxPages}}

InitPdf ==
    /\ doc \in Documents
    /\ extracted = [raised |-> FALSE, text |-> <<>>]
    /\ pstage = "input"

ParkPdf ==
    /\ doc = [readable |-> FALSE, pages |-> <<>>]
    /\ extracted = [raised |-> FALSE, text |-> <<>>]
    /\ pstage = "off"

\* source_text = extract_text_from_pdf(uploaded_pdf), line 229
Extract ==
    /\ pstage = "input"
    /\ extracted' = extract_text_from_pdf(doc)
    /\ pstage' = "done"
    /\ UNCHANGED doc

---------------------------------------------------------------------------
\* Spec: the application.  Init is the session after the first run of the
\* script, before any interaction.  A widget can be used only if the last run
\* got far enough to draw it.
InitApp ==
    /\ client \in {"None", "Groq"}
    /\ todos = <<>>
    /\ finance = <<>>
    /\ cleaned_notes = <<>>
    /\ checked = {}
    /\ rendered = <<>>
    /\ reached = "end"
    /\ pressed = "none"
    /\ text_in = <<>>
    /\ clicked = 0
    /\ requests = <<>>
    /\ ai = NotCalled
    /\ df = NoTable
    /\ expense_log = <<>>

ParkApp ==
    /\ client = "None"
    /\ todos = <<>>
    /\ finance = <<>>
    /\ cleaned_notes = <<>>
    /\ checked = {}
    /\ rendered = <<>>
    /\ reached = "off"
    /\ pressed = "none"
    /\ text_in = <<>>
    /\ clicked = 0
    /\ requests = <<>>
    /\ ai = NotCalled
    /\ df = NoTable
    /\ expense_log = <<>>

\* st.button("Generate Steps"), line 137
GenerateSteps ==
    /\ \E t \in MainTasks : \E resp \in ResponsesIf(strip(t) # <<>>) :
           RunScript([Idle EXCEPT !.button = "Generate Steps",
                                  !.main_task = t, !.response = resp],
                     checked, 0)
    /\ UNCHANGED <<cleanvars, pdfvars>>

\* st.button("Add Task"), line 166
AddTask ==
    /\ reached # "tab1"
    /\ \E t \in TaskInputs :
           /\ strip(t) # <<>> => Len(todos) < MaxTodos
           /\ RunScript([Idle EXCEPT !.button = "Add Task", !.new_task = t],
                        checked, 0)
    /\ UNCHANGED <<cleanvars, pdfvars>>

\* the user clicks one of the checkboxes of line 176
ClickCheckbox ==
    /\ reached # "tab1"
    /\ \E i \in 1..Len(rendered) :
           LET w == checkbox_id(i, rendered[i])
           IN  IF w \in checked
               THEN RunScript(Idle, checked \ {w}, 0)
               ELSE RunScript(Idle, checked \cup {w}, i)
    /\ UNCHANGED <<cleanvars, pdfvars>>

\* st.button("Generate Ideas"), line 208
GenerateIdeas ==
    /\ reached # "tab1"
    /\ \E i \in IdeaInputs, resp \in Responses :
           RunScript([Idle EXCEPT !.button = "Generate Ideas",
                                  !.category = i.category,
                                  !.custom_prompt = i.custom_prompt,
                                  !.response = resp],
                     checked, 0)
    /\ UNCHANGED <<cleanvars, pdfvars>>

\* st.button("Clean Notes"), line 238
CleanNotes ==
    /\ reached \notin {"tab1", "tab3"}
    /\ \E n \in NoteInputs : \E resp \in ResponsesIf(strip(source_text(n)) # <<>>) :
           RunScript([Idle EXCEPT !.button = "Clean Notes",
                                  !.uploaded_pdf = n.uploaded_pdf,
                                  !.pasted = n.pasted, !.response = resp],
                     checked, 0)
    /\ UNCHANGED <<cleanvars, pdfvars>>

\* st.button("Add Expense"), line 273
AddExpense ==
    /\ reached \in {"tab5", "end"}
    /\ Len(expense_log) < MaxExpenses
    /\ \E e \in ExpenseInputs :
           RunScript([Idle EXCEPT !.button = "Add Expense", !.expense = e],
                     checked, 0)
    /\ UNCHANGED <<cleanvars, pdfvars>>

\* st.button("Get Financial Advice"), line 296: drawn only under a table
GetFinancialAdvice ==
    /\ reached \in {"tab5", "end"}
    /\ finance # <<>>
    /\ \E resp \in Responses :
           RunScript([Idle EXCEPT !.button = "Get Financial Advice",
                                  !.response = resp],
                     checked, 0)
    /\ UNCHANGED <<cleanvars, pdfvars>>

\* any other widget change (typing in a text box, choosing a category, ...)
Rerun ==
    /\ RunScript(Idle, checked, 0)
    /\ UNCHANGED <<cleanvars, pdfvars>>

Init == InitApp /\ ParkClean /\ ParkPdf

Next ==
    \/ GenerateSteps
    \/ AddTask
    \/ ClickCheckbox
    \/ GenerateIdeas
    \/ CleanNotes
    \/ AddExpense
    \/ GetFinancialAdvice
    \/ Rerun

Spec == Init /\ [][Next]_vars

InitCleanSpec == InitClean /\ ParkApp /\ ParkPdf

CleanOnceStep == CleanOnce /\ UNCHANGED <<appvars, pdfvars>>

CleanTwiceStep == CleanTwice /\ UNCHANGED <<appvars, pdfvars>>

NextClean ==
    \/ CleanOnceStep
    \/ CleanTwiceStep

SpecClean == InitCleanSpec /\ [][NextClean]_vars

InitPdfSpec == InitPdf /\ ParkApp /\ ParkClean

ExtractStep == Extract /\ UNCHANGED <<appvars, cleanvars>>

NextPdf == ExtractStep

SpecPdf == InitPdfSpec /\ [][NextPdf]_vars

---------------------------------------------------------------------------
\* What the claims say, stated without the operators above: a regex match is
\* described by where it ends, trimming by the first and last character kept.

AllIn(s, i, j, S) == \A k \in i..j : s[k] \in S

\* The end of the longest run of S-characters of s that starts at i
\* (i - 1 when s has no S-character at i).
RunEnd(s, i, S) ==
    CHOOSE j \in (i - 1)..Len(s) :
        AllIn(s, i, j, S) /\ (j = Len(s) \/ s[j + 1] \notin S)

\* The length of the match of ^\d+\.\s* in s, 0 when there is none.
NumberingMatch(s) ==
    LET d == RunEnd(s, 1, Digits)
    IN  IF d >= 1 /\ d < Len(s) /\ s[d + 1] = "."
        THEN RunEnd(s, d + 2, Whitespace)
        ELSE 0

\* The length of the match of ^\(\d+\)\s* in s, 0 when there is none.
ParenMatch(s) ==
    IF s # <<>> /\ s[1] = "("
    THEN LET d == RunEnd(s, 2, Digits)
         IN  IF d >= 2 /\ d < Len(s) /\ s[d + 1] = ")"
             THEN RunEnd(s, d + 2, Whitespace)
             ELSE 0
    ELSE 0

\* The length of the match of ^[•\-*→»]\s* in s (one symbol), 0 when there is none.
SpecBullets == {"BULLET", "-", "*", "ARROW", "RAQUO"}
OneBulletMatch(s) ==
    IF s # <<>> /\ s[1] \in SpecBullets THEN RunEnd(s, 2, Whitespace) ELSE 0

\* The length of the match of ^[\*\-\•\·\→\▶\»]+\s* in s, 0 when there is none.
BulletRunMatch(s) ==
    LET b == RunEnd(s, 1, BulletChars)
    IN  IF b >= 1 THEN RunEnd(s, b + 1, Whitespace) ELSE 0

\* s without its leading and trailing whitespace.
Trim(s) ==
    LET kept == {k \in 1..Len(s) : s[k] \notin Whitespace}
    IN  IF kept = {} THEN <<>>
        ELSE SubSeq(s, CHOOSE k \in kept : \A j \in kept : k <= j,
                       CHOOSE k \in kept : \A j \in kept : k >= j)

\* s begins with something one more clean_step would strip.
HasPrefix(s) ==
    \/ BulletRunMatch(s) > 0
    \/ NumberingMatch(s) > 0
    \/ ParenMatch(s) > 0

RemoveAt(s, k) == SubSeq(s, 1, k - 1) \o SubSeq(s, k + 1, Len(s))

RECURSIVE Concat(_)
Concat(ts) == IF ts = <<>> THEN <<>> ELSE Head(ts) \o Concat(Tail(ts))

IsStr(page) == page.kind = "str"
IsNonEmptyStr(page) == page.kind = "str" /\ page.text # <<>>
WithNewlines(pages) == [i \in 1..Len(pages) |-> pages[i].text \o <<NL>>]

Buttons ==
    {"Generate Steps", "Add Task", "Generate Ideas", "Clean Notes",
     "Add Expense", "Get Financial Advice"}

\* str(datetime.date) of the two dates the model enters.
IsoDate(d) ==
    IF d = [year |-> 2024, month |-> 1, day |-> 1]
    THEN <<"2", "0", "2", "4", "-", "0", "1", "-", "0", "1">>
    ELSE <<"2", "0", "2", "4", "-", "1", "2", "-", "3", "1">>

---------------------------------------------------------------------------
\* C1: ai_call never raises to its caller, whatever the completion request
\* does (a transport failure, a response of the wrong shape): it returns a str.
C1_AiCallNeverRaises == ai.called => ~ai.raised

\* C2: with no credential configured (client is None) ai_call returns the same
\* fixed placeholder for every prompt and sends no request to the service.
C2_PlaceholderWithoutCredential ==
    (client = "None" /\ ai.called) =>
        /\ ~ai.raised
        /\ ai.value = Placeholder
        /\ requests = <<>>

\* C2's case: a run without a credential whose handler called ai_call.
C2_Witness ==
    /\ client = "None"
    /\ ai.called
    /\ pressed = "Generate Ideas"
    /\ requests = <<>>

\* C3: pressing Add Task, Generate Steps, Clean Notes or Add Expense while its
\* text input is empty or whitespace-only leaves todos, finance and
\* cleaned_notes unchanged.
C3_EmptyInputMutatesNothing ==
    [][(/\ pressed' \in {"Add Task", "Generate Steps", "Clean Notes", "Add Expense"}
        /\ strip(text_in') = <<>>)
          => UNCHANGED <<todos, finance, cleaned_notes>>]_vars

\* C4: a todo item leaves the list only when the user marks that very item
\* complete; every other item stays, in insertion order.  A step changes the
\* list by the task it adds and by the one item whose checkbox the user ticked
\* (at the position ticked when the list shown is the current one).
C4_OnlyMarkedItemsLeave ==
    [][IF clicked' = 0
       THEN todos' = IF pressed' = "Add Task" /\ strip(text_in') # <<>>
                     THEN Append(todos, strip(text_in'))
                     ELSE todos
       ELSE IF rendered = todos
       THEN todos' = RemoveAt(todos, clicked')
       ELSE \/ todos' = todos
            \/ \E k \in 1..Len(todos) :
                   /\ todos[k] = rendered[clicked']
                   /\ todos' = RemoveAt(todos, k)]_vars

\* C5 as claimed: a line that starts with "N." or "(N)" and optional whitespace
\* loses exactly one such prefix (and is trimmed).
C5_ExactlyOnePrefix ==
    (cstage # "input" /\ (NumberingMatch(line) > 0 \/ ParenMatch(line) > 0)) =>
        once = Trim(Drop(line, NumberingMatch(line) + ParenMatch(line)))

\* C5 as amended: a line that starts with "N." or "(N)" and optional whitespace
\* loses that prefix, and a line that starts with "N." also loses a "(M)"
\* prefix that follows it; no other prefix is removed, and the rest is trimmed.
C5_NumberingThenParen ==
    (cstage # "input" /\ (NumberingMatch(line) > 0 \/ ParenMatch(line) > 0)) =>
        LET rest == Drop(line, NumberingMatch(line) + ParenMatch(line))
        IN  once = IF NumberingMatch(line) > 0
                   THEN Trim(Drop(rest, ParenMatch(rest)))
                   ELSE Trim(rest)

\* C5's case: "N." followed by "(M)", cleaned: both prefixes are gone.
C5_Witness ==
    /\ cstage = "once"
    /\ NumberingMatch(line) > 0
    /\ ParenMatch(Drop(line, NumberingMatch(line))) > 0
    /\ once # Trim(Drop(line, NumberingMatch(line)))

\* C6 as claimed: a line matching ^[•\-*→»]\s* comes back with exactly that one
\* matched prefix removed and the rest trimmed.
C6_SingleBulletOnly ==
    (cstage # "input" /\ OneBulletMatch(line) > 0) =>
        once = Trim(Drop(line, OneBulletMatch(line)))

\* C6 as amended: a line matching ^[•\-*→»]\s* loses its whole leading run of
\* symbols from * - • · → ▶ » and the whitespace after it, then one "N." prefix
\* and then one "(N)" prefix if they follow, and the rest is trimmed.
C6_BulletRunThenNumbering ==
    (cstage # "input" /\ OneBulletMatch(line) > 0) =>
        LET r1 == Drop(line, BulletRunMatch(line))
            r2 == Drop(r1, NumberingMatch(r1))
            r3 == Drop(r2, ParenMatch(r2))
        IN  once = Trim(r3)

\* C6's case: a bullet followed by another symbol, where more than the one
\* matched prefix goes.
C6_Witness ==
    /\ cstage = "once"
    /\ OneBulletMatch(line) > 0
    /\ Len(line) >= 2
    /\ line[2] \in BulletChars
    /\ once = <<"x">>
    /\ once # Trim(Drop(line, OneBulletMatch(line)))

\* C7 as claimed: clean_step(clean_step(s)) = clean_step(s) for every line s.
C7_Idempotent == cstage = "twice" => twice = once

\* C7 as amended: clean_step(clean_step(s)) = clean_step(s) for every line s
\* whose first result begins with no further bullet or numbering prefix.
C7_IdempotentWithoutPrefix ==
    (cstage = "twice" /\ ~HasPrefix(once)) => twice = once

\* C7's case: a line that lost a prefix and has none left.
C7_Witness ==
    /\ cstage = "twice"
    /\ NumberingMatch(line) > 0
    /\ once # <<>>
    /\ ~HasPrefix(once)

\* C8 as claimed: extract_text_from_pdf never raises and returns, in page
\* order, each page's extracted text followed by a newline, a page whose
\* extraction fails giving nothing; "" for an unreadable document.
C8_EveryPageText ==
    pstage = "done" =>
        /\ ~extracted.raised
        /\ extracted.text =
               IF doc.readable
               THEN Concat(WithNewlines(SelectSeq(doc.pages, IsStr)))
               ELSE <<>>

\* C8 as amended: extract_text_from_pdf never raises and returns, in page
\* order, each page's non-empty extracted text followed by a newline; a page
\* whose extraction fails or yields no text (None or "") gives nothing, not
\* even the newline; "" for an unreadable document.
C8_EveryNonEmptyPageText ==
    pstage = "done" =>
        /\ ~extracted.raised
        /\ extracted.text =
               IF doc.readable
               THEN Concat(WithNewlines(SelectSeq(doc.pages, IsNonEmptyStr)))
               ELSE <<>>

\* C8's case: a readable document with a failing page, an empty page and a
\* page of text.
C8_Witness ==
    /\ pstage = "done"
    /\ doc.readable
    /\ \E i, j, k \in 1..Len(doc.pages) :
           /\ doc.pages[i].kind = "raises"
           /\ doc.pages[j] = [kind |-> "str", text |-> <<>>]
           /\ doc.pages[k] = [kind |-> "str", text |-> <<"a">>]
    /\ extracted.text = <<"a", NL>>

\* C9: the expense list is append-only: every record Add Expense appended is
\* still at its position with its date, description, amount and category, and
\* the exported table has one row per Add Expense press, in order.
C9_ExpensesAppendOnly ==
    /\ Len(finance) = Len(expense_log)
    /\ \A i \in 1..Len(finance) :
           finance[i] = [date        |-> IsoDate(expense_log[i].date_input),
                         description |-> expense_log[i].desc_input,
                         amount      |-> expense_log[i].amt_input,
                         category    |-> expense_log[i].category_input]
    /\ reached \in {"tab5", "end"} =>
           /\ Len(df.rows) = Len(expense_log)
           /\ \A i \in 1..Len(expense_log) :
                  df.rows[i] = <<IsoDate(expense_log[i].date_input),
                                 expense_log[i].desc_input,
                                 expense_log[i].amt_input,
                                 expense_log[i].category_input>>

\* C9's case: two expenses entered, the first one the "Bus" record, and a
\* later run that exports both.
C9_Witness ==
    /\ Len(expense_log) = 2
    /\ pressed # "Add Expense"
    /\ reached = "end"
    /\ Len(df.rows) = 2
    /\ finance[1] = [date        |-> <<"2", "0", "2", "4", "-", "0", "1", "-", "0", "1">>,
                     description |-> <<"B", "u", "s">>,
                     amount      |-> 25,
                     category    |-> "Travel"]

\* C10 as claimed: the run a button press causes sends exactly one completion
\* request, for every button and every input.
C10_ExactlyOneRequest == pressed \in Buttons => Len(requests) = 1

\* C10 as amended: the run a button press causes sends at most one completion
\* request and never a second attempt: exactly one when a credential is
\* configured and the button is Generate Steps with a non-blank task,
\* Generate Ideas, Clean Notes with non-blank source text, or Get Financial
\* Advice; none otherwise.
C10_AtMostOneRequest ==
    Len(requests) =
        IF /\ client = "Groq"
           /\ \/ pressed = "Generate Steps" /\ strip(text_in) # <<>>
              \/ pressed = "Generate Ideas"
              \/ pressed = "Clean Notes" /\ strip(text_in) # <<>>
              \/ pressed = "Get Financial Advice"
        THEN 1
        ELSE 0

\* C10's case: Clean Notes pressed, the one request answered by a malformed
\* response, whose text becomes the cleaned notes.
C10_Witness ==
    /\ pressed = "Clean Notes"
    /\ requests = <<"notes">>
    /\ ai.called /\ ~ai.raised
    /\ cleaned_notes = <<"ChatCompletion(", "malformed", ")">>

===========================================================================
